---- MODULE Spec2Model ----
(***************************************************************************)
(* A model of obs-package-update:                                          *)
(*   - util.run_cmd              (one asynchronous shell command)          *)
(*   - util.retry_async_run_cmd  (bounded retry of a coroutine)            *)
(*   - update.Updater.update_package (the branch/checkout/commit workflow, *)
(*     one call and two calls at once)                                     *)
(*   - util.RunCommand           (run_cmd with defaults of an instance)    *)
(*   - submitrequest.SubmitRequest.from_osc_output and                     *)
(*     submitrequest._submit_requests_from_osc (the parser of the output   *)
(*     of `osc request list`)                                              *)
(*                                                                         *)
(* Texts are sequences of one-character strings and raw process output is  *)
(* a sequence of bytes (also written as short strings), so that split,     *)
(* replace and decode are computed as Python computes them.                *)
(***************************************************************************)
EXTENDS Integers, Sequences, FiniteSets, TLC

VARIABLES
    \* ---- util.run_cmd: one call
    r_pc,        \* position inside run_cmd
    r_args,      \* the arguments of the call
    proc,        \* the child process created by create_subprocess_shell
    retcode,     \* value of `retcode` (line 94), NoCode before
    r_out,       \* what the call gave its caller: a CommandResult or an exception
    \* ---- util.retry_async_run_cmd: one call
    t_pc,        \* position inside retry_async_run_cmd
    retries,     \* the `retries` argument
    i,           \* the loop variable
    t_hist,      \* outcomes of the calls of `coroutine` made so far, in order
    t_out,       \* what the call gave its caller
    \* ---- update.Updater.update_package: one call
    u_pc,        \* position inside update_package
    u_wait,      \* a command was issued through run() and is awaited
    flags,       \* cleanup_on_error, submit_package, cleanup_on_no_change
    tmp_exists,  \* the TemporaryDirectory of line 99 exists on disk
    target_pkg,  \* Optional[str] of line 114
    written_files, \* list returned by add_files, and the index of the next one
    st_out,      \* Optional: stdout of `osc st` (line 130)
    exc,         \* the exception bound by `except Exception as exc`
    cmds,        \* every command handed to run(), in order
    u_out,       \* what the call gave its caller
    orphans,     \* commands whose child was left running by a timed-out run_cmd
    \* ---- submitrequest._submit_requests_from_osc: one call
    p_pc,        \* position inside _submit_requests_from_osc
    p_blocks,    \* the request blocks the osc output was printed from
    p_stdout,    \* the `stdout` argument
    p_chunks,    \* stdout.split("\n\n") and the index of the next chunk
    p_res,       \* the list `res`
    p_out,       \* what the call gave its caller
    \* ---- util.RunCommand.__call__: one call
    c_pc,        \* position inside RunCommand.__call__
    c_self,      \* the fields of the RunCommand instance
    c_call,      \* the arguments of the call
    \* ---- update.Updater.update_package: two calls at once
    runs         \* the locals of each of the two calls

r_vars == <<r_pc, r_args, proc, retcode, r_out>>
t_vars == <<t_pc, retries, i, t_hist, t_out>>
u_vars == <<u_pc, u_wait, flags, tmp_exists, target_pkg, written_files, st_out, exc,
           cmds, u_out, orphans>>
p_vars == <<p_pc, p_blocks, p_stdout, p_chunks, p_res, p_out>>
c_vars == <<c_pc, c_self, c_call>>
vars == <<r_vars, t_vars, u_vars, p_vars, c_vars, runs>>

-----------------------------------------------------------------------------
(* Bounds of the model *)

\* bytes of output the child can write before it blocks: nothing drains the
\* pipes until communicate() is called
PipeCap == 8
\* largest value of the `retries` argument explored
MaxRetries == 4
\* largest number of filenames add_files returns
MaxFiles == 2
\* largest number of request blocks in one osc output
MaxBlocks == 3
\* largest number of lines drawn after a Descr line
MaxConts == 2

-----------------------------------------------------------------------------
(* Texts *)

NL == "\n"
SP == " "

Min(a, b) == IF a <= b THEN a ELSE b

\* s.split(sep) for a one-character separator: always at least one element
RECURSIVE Split(_, _)
Split(s, sep) ==
    IF \A k \in 1..Len(s) : s[k] # sep
    THEN <<s>>
    ELSE LET k == CHOOSE k \in 1..Len(s) :
                      s[k] = sep /\ \A j \in 1..(k - 1) : s[j] # sep
         IN  <<SubSeq(s, 1, k - 1)>> \o Split(SubSeq(s, k + 1, Len(s)), sep)

\* s.replace(a, b) for one-character a and b
Replace(s, a, b) == [k \in 1..Len(s) |-> IF s[k] = a THEN b ELSE s[k]]

\* bytes.decode(): strict UTF-8. "xC3" "xA9" is the two-byte encoding of one
\* character, "xFF" is valid nowhere, every other byte is ASCII.
DecodeError == <<"UnicodeDecodeError">>
RECURSIVE decode(_)
decode(b) ==
    IF b = <<>> THEN <<>>
    ELSE IF b[1] = "xFF" THEN DecodeError
    ELSE IF b[1] = "xC3"
         THEN IF Len(b) >= 2 /\ b[2] = "xA9"
              THEN LET rest == decode(SubSeq(b, 3, Len(b)))
                   IN  IF rest = DecodeError THEN DecodeError ELSE <<"U+00E9">> \o rest
              ELSE DecodeError
    ELSE IF b[1] = "xA9" THEN DecodeError
    ELSE LET rest == decode(Tail(b))
         IN  IF rest = DecodeError THEN DecodeError ELSE <<b[1]>> \o rest

(* Texts of submitrequest.py: str.strip, splitlines, split, in, join, int *)

TAB == "\t"
IsSpace(c) == c \in {SP, TAB, NL}

\* s.lstrip()
RECURSIVE LStrip(_)
LStrip(s) == IF s # <<>> /\ IsSpace(s[1]) THEN LStrip(Tail(s)) ELSE s

\* s.rstrip()
RECURSIVE RStrip(_)
RStrip(s) ==
    IF s # <<>> /\ IsSpace(s[Len(s)]) THEN RStrip(SubSeq(s, 1, Len(s) - 1)) ELSE s

\* s.strip()
Strip(s) == RStrip(LStrip(s))

\* the leading whitespace of s: what re.match(r"^\s+", s) matches
LeadingSpace(s) == SubSeq(s, 1, Len(s) - Len(LStrip(s)))

\* s.splitlines(): no line for the empty text, none after a final newline
SplitLines(s) ==
    IF s = <<>> THEN <<>>
    ELSE LET parts == Split(s, NL)
         IN  IF parts[Len(parts)] = <<>> THEN SubSeq(parts, 1, Len(parts) - 1)
             ELSE parts

\* s.split(): the maximal runs of non-whitespace characters
RECURSIVE SplitWs(_)
SplitWs(s) ==
    LET t == LStrip(s)
    IN  IF t = <<>> THEN <<>>
        ELSE LET n == IF \E k \in 1..Len(t) : IsSpace(t[k])
                      THEN (CHOOSE k \in 1..Len(t) :
                               IsSpace(t[k]) /\ \A j \in 1..(k - 1) : ~IsSpace(t[j])) - 1
                      ELSE Len(t)
             IN  <<SubSeq(t, 1, n)>> \o SplitWs(SubSeq(t, n + 1, Len(t)))

\* the positions where `sub` occurs in s
Occurrences(s, sub) ==
    {k \in 1..(Len(s) - Len(sub) + 1) : SubSeq(s, k, k + Len(sub) - 1) = sub}

\* sub in s
Contains(s, sub) == Occurrences(s, sub) # {}

\* s.split(sep) for a separator of any length, scanning from the left
RECURSIVE SplitOn(_, _)
SplitOn(s, sep) ==
    IF ~Contains(s, sep) THEN <<s>>
    ELSE LET k == CHOOSE k \in Occurrences(s, sep) :
                      \A j \in Occurrences(s, sep) : k <= j
         IN  <<SubSeq(s, 1, k - 1)>> \o SplitOn(SubSeq(s, k + Len(sep), Len(s)), sep)

\* sep.join(parts)
RECURSIVE Join(_, _)
Join(parts, sep) ==
    IF parts = <<>> THEN <<>>
    ELSE IF Len(parts) = 1 THEN parts[1]
    ELSE parts[1] \o sep \o Join(Tail(parts), sep)

\* int(s) for a token of decimal digits; any other token drawn here makes
\* int() raise ValueError
Digits == <<"0", "1", "2", "3", "4", "5", "6", "7", "8", "9">>
IsInt(s) == s # <<>> /\ \A k \in 1..Len(s) : \E d \in 1..10 : Digits[d] = s[k]
RECURSIVE ToInt(_)
ToInt(s) ==
    IF s = <<>> THEN 0
    ELSE 10 * ToInt(SubSeq(s, 1, Len(s) - 1))
         + (CHOOSE d \in 1..10 : Digits[d] = s[Len(s)]) - 1

-----------------------------------------------------------------------------
(* The child process *)

\* what `osc branch` prints: the checkout instruction is the third line
BranchOk == <<NL, NL, "c", SP, "h", "/", "p", NL>>
\* third line ends with a blank: the last word is empty
BranchNoName == <<NL, NL, "c", SP>>
\* fewer than three lines
BranchShort == <<"A", NL>>
\* more than the pipe holds
Big == [k \in 1..(PipeCap + 1) |-> "A"]

StdoutBytes == {<<>>, <<"M">>, BranchOk, BranchNoName, BranchShort,
                <<"xC3", "xA9">>, <<"xFF">>, Big}
StderrBytes == {<<>>, <<"e">>, <<"xFF">>}
ExitCodes == {0, 1, 2}

\* what a child does if left alone: writes stdout and stderr, then exits
Scripts == [exit_code : ExitCodes, stdout : StdoutBytes, stderr : StderrBytes]
\* the osc client's range: it writes its answer to stdout
OscScripts == [exit_code : {0, 1}, stdout : StdoutBytes \ {Big, <<"xC3", "xA9">>},
               stderr : {<<>>, <<"e">>}]
\* only `osc branch` prints a checkout instruction; the other osc commands
\* print nothing or a short text
ScriptsOf(cmd) ==
    IF cmd = "sh" THEN Scripts
    ELSE IF cmd = "branch" THEN OscScripts
    ELSE {s \in OscScripts : Len(s.stdout) <= 1}

NoCode == -1
NoScript == [exit_code |-> NoCode, stdout |-> <<>>, stderr |-> <<>>]
NoProc == [status |-> "none", script |-> NoScript, cwd |-> "", env |-> "",
           pipe_out |-> <<>>, pipe_err |-> <<>>]

ParentCwd == "."
ParentEnv == "os.environ"

-----------------------------------------------------------------------------
(* util.run_cmd *)

None == "None"

\* Optional[str]
NoPkg == [some |-> FALSE, v |-> <<>>]
Some(s) == [some |-> TRUE, v |-> s]

\* results and exceptions share one shape; `id` stands for object identity:
\* the number of commands update_package had issued when the object was made
\* (0 outside update_package)
NoResult == [exit_code |-> NoCode, stdout |-> <<>>, stderr |-> <<>>]
CommandResult(code, out, err) == [exit_code |-> code, stdout |-> out, stderr |-> err]
Returned(res) == [kind |-> "return", command_result |-> res, id |-> 0]
Raised(kind, res, id) == [kind |-> kind, command_result |-> res, id |-> id]
NoOutcome == [kind |-> "none", command_result |-> NoResult, id |-> 0]

\* Optional[Union[int, float, timedelta]]
NoTimeout == [type |-> "None", minutes |-> 0, seconds |-> 0]
Seconds(n) == [type |-> "number", minutes |-> 0, seconds |-> n]
Timedelta(m, n) == [type |-> "timedelta", minutes |-> m, seconds |-> n]
NoDeadline == -1

\* lines 91-92: a timedelta becomes its total_seconds(), a number stays
TimeoutSeconds(timeout) ==
    IF timeout.type = "None" THEN NoDeadline
    ELSE IF timeout.type = "timedelta" THEN 60 * timeout.minutes + timeout.seconds
    ELSE timeout.seconds

\* line 99
RaisesCommandErrorMutant(raise_on_error, code) == code # 0
RaisesCommandError(raise_on_error, code) == raise_on_error /\ code # 0

\* lines 84-90: the child starts in cwd (the caller's when None) with env (the
\* caller's when None) and will follow some script
Spawn ==
    /\ r_pc = "spawn"
    /\ \E s \in ScriptsOf(r_args.cmd) :
          proc' = [status |-> "running", script |-> s,
                   cwd |-> IF r_args.cwd = None THEN ParentCwd ELSE r_args.cwd,
                   env |-> IF r_args.env = None THEN ParentEnv ELSE r_args.env,
                   pipe_out |-> <<>>, pipe_err |-> <<>>]
    /\ r_pc' = "wait"
    /\ UNCHANGED <<r_args, retcode, r_out, t_vars, u_vars, p_vars, c_vars, runs>>

\* the child writes what fits into the pipe; the rest stays unwritten
ChildWriteStdout ==
    /\ proc.status = "running"
    /\ Len(proc.pipe_out) < Min(Len(proc.script.stdout), PipeCap)
    /\ proc' = [proc EXCEPT !.pipe_out =
                   SubSeq(proc.script.stdout, 1, Min(Len(proc.script.stdout), PipeCap))]
    /\ UNCHANGED <<r_pc, r_args, retcode, r_out, t_vars, u_vars, p_vars, c_vars, runs>>

ChildWriteStderr ==
    /\ proc.status = "running"
    /\ Len(proc.pipe_err) < Min(Len(proc.script.stderr), PipeCap)
    /\ proc' = [proc EXCEPT !.pipe_err =
                   SubSeq(proc.script.stderr, 1, Min(Len(proc.script.stderr), PipeCap))]
    /\ UNCHANGED <<r_pc, r_args, retcode, r_out, t_vars, u_vars, p_vars, c_vars, runs>>

\* the child exits once everything is written
ChildExit ==
    /\ proc.status = "running"
    /\ proc.pipe_out = proc.script.stdout
    /\ proc.pipe_err = proc.script.stderr
    /\ proc' = [proc EXCEPT !.status = "exited"]
    /\ UNCHANGED <<r_pc, r_args, retcode, r_out, t_vars, u_vars, p_vars, c_vars, runs>>

\* line 94, proc.wait() completes: the child is reaped, its code is `retcode`
WaitReturns ==
    /\ r_pc = "wait"
    /\ proc.status = "exited"
    /\ retcode' = proc.script.exit_code
    /\ proc' = [proc EXCEPT !.status = "reaped"]
    /\ r_pc' = "communicate"
    /\ UNCHANGED <<r_args, r_out, t_vars, u_vars, p_vars, c_vars, runs>>

\* line 94, wait_for gives up: the wait is cancelled, TimeoutError goes to the
\* caller of run_cmd; nothing is done to the child
WaitTimesOut ==
    /\ r_pc = "wait"
    /\ TimeoutSeconds(r_args.timeout) # NoDeadline
    /\ proc.status = "running"
    /\ r_out' = Raised("TimeoutError", NoResult, Len(cmds))
    /\ r_pc' = "raised"
    /\ UNCHANGED <<r_args, proc, retcode, t_vars, u_vars, p_vars, c_vars, runs>>

\* lines 95-109
Communicate ==
    /\ r_pc = "communicate"
    /\ LET out == decode(proc.pipe_out)
           err == decode(proc.pipe_err)
           command_res == CommandResult(retcode, out, err)
       IN  IF out = DecodeError \/ err = DecodeError
           THEN /\ r_out' = Raised("UnicodeDecodeError", NoResult, Len(cmds))
                /\ r_pc' = "raised"
           ELSE IF RaisesCommandError(r_args.raise_on_error, retcode)
           THEN /\ r_out' = Raised("CommandError", command_res, Len(cmds))
                /\ r_pc' = "raised"
           ELSE /\ r_out' = Returned(command_res)
                /\ r_pc' = "returned"
    /\ proc' = [proc EXCEPT !.pipe_out = <<>>, !.pipe_err = <<>>]
    /\ UNCHANGED <<r_args, retcode, t_vars, u_vars, p_vars, c_vars, runs>>

\* the arguments a caller may pass to run_cmd
Timeouts == {NoTimeout, Seconds(1), Timedelta(0, 1)}
RunCmdArgs == [cmd : {"sh"}, cwd : {None, "dir"}, raise_on_error : BOOLEAN,
               timeout : Timeouts, env : {None, "env"}]
NoArgs == [cmd |-> "", cwd |-> None, raise_on_error |-> TRUE,
           timeout |-> NoTimeout, env |-> None]

\* the parser has given its caller nothing yet
NoParse == [kind |-> "none", list |-> <<>>]
\* RunCommand() with the defaults of lines 119-123, and no call of it
NoFields == [cwd |-> None, raise_on_error |-> TRUE, timeout |-> NoTimeout, env |-> None]
NoCall == [cmd |-> "", cwd |-> None, raise_on_error |-> None, timeout |-> NoTimeout,
           env |-> None]

r_idle ==
    /\ r_pc = "idle" /\ r_args = NoArgs /\ proc = NoProc
    /\ retcode = NoCode /\ r_out = NoOutcome
t_idle ==
    /\ t_pc = "idle" /\ retries = 0 /\ i = 0 /\ t_hist = <<>> /\ t_out = NoOutcome
u_idle ==
    /\ u_pc = "idle" /\ u_wait = FALSE
    /\ flags = [cleanup_on_error |-> FALSE, submit_package |-> TRUE,
                cleanup_on_no_change |-> TRUE]
    /\ tmp_exists = FALSE
    /\ target_pkg = NoPkg
    /\ written_files = [names |-> <<>>, next |-> 1]
    /\ st_out = NoPkg
    /\ exc = NoOutcome
    /\ cmds = <<>>
    /\ u_out = NoOutcome
    /\ orphans = {}
p_idle ==
    /\ p_pc = "idle" /\ p_blocks = <<>> /\ p_stdout = <<>>
    /\ p_chunks = [list |-> <<>>, next |-> 1] /\ p_res = <<>> /\ p_out = NoParse
c_idle ==
    /\ c_pc = "idle" /\ c_self = NoFields /\ c_call = NoCall

\* the two calls, and the source package of each
Invocations == {1, 2}
SourceOf(k) == IF k = 1 THEN <<"P", "/", "p">> ELSE <<"Q", "/", "p">>

\* the locals of one call before line 99
NoRun(k, f) ==
    [pc |-> "start", wait |-> FALSE, flags |-> f, source_package |-> SourceOf(k),
     tmp |-> "", target_pkg |-> NoPkg, written_files |-> [names |-> <<>>, next |-> 1],
     exc |-> NoOutcome, cmds |-> <<>>, out |-> NoOutcome]

\* no call of it is running
runs_idle ==
    runs = [k \in Invocations |->
               NoRun(k, [cleanup_on_error |-> FALSE, submit_package |-> TRUE,
                         cleanup_on_no_change |-> TRUE])]

\* a direct call of run_cmd
InitRunCmd ==
    /\ r_pc = "spawn"
    /\ r_args \in RunCmdArgs
    /\ proc = NoProc /\ retcode = NoCode /\ r_out = NoOutcome
    /\ t_idle /\ u_idle /\ p_idle /\ c_idle /\ runs_idle

NextRunCmd ==
    \/ Spawn
    \/ ChildWriteStdout
    \/ ChildWriteStderr
    \/ ChildExit
    \/ WaitReturns
    \/ WaitTimesOut
    \/ Communicate

SpecRunCmd == InitRunCmd /\ [][NextRunCmd]_vars

-----------------------------------------------------------------------------
(* util.RunCommand *)

\* `a or b` (lines 141, 143, 145): None, "" and the empty mapping are falsy
Or(a, b) == IF a \in {None, "", "{}"} THEN b ELSE a
\* `timeout or self.timeout` (line 143): None, 0 and timedelta(0) are falsy
OrTimeout(a, b) == IF TimeoutSeconds(a) \in {NoDeadline, 0} THEN b ELSE a

\* lines 134-145: the arguments __call__ hands to run_cmd
CallArgs(self, call) ==
    [cmd |-> call.cmd,
     cwd |-> Or(call.cwd, self.cwd),
     raise_on_error |-> IF call.raise_on_error = None THEN self.raise_on_error
                        ELSE call.raise_on_error = "True",
     timeout |-> OrTimeout(call.timeout, self.timeout),
     env |-> Or(call.env, self.env)]

\* lines 134-139: run_cmd is called
RunCommandCall ==
    /\ c_pc = "call"
    /\ r_pc = "idle"
    /\ r_args' = CallArgs(c_self, c_call)
    /\ r_pc' = "spawn"
    /\ c_pc' = "await"
    /\ UNCHANGED <<c_self, c_call, proc, retcode, r_out, t_vars, u_vars, p_vars, runs>>

\* line 139: what run_cmd returned or raised is what __call__ returns or raises
RunCommandDone ==
    /\ c_pc = "await"
    /\ r_pc \in {"returned", "raised"}
    /\ c_pc' = "done"
    /\ UNCHANGED <<c_self, c_call, r_vars, t_vars, u_vars, p_vars, runs>>

\* a RunCommand instance with or without defaults of its own (lines 119-123)
\* and a call of it with or without values (lines 127-132); "{}" is the empty
\* mapping
InitRunCommand ==
    /\ c_pc = "call"
    /\ c_self \in [cwd : {None, "dir"}, raise_on_error : BOOLEAN,
                   timeout : {NoTimeout, Seconds(1)}, env : {None, "env"}]
    /\ c_call \in [cmd : {"true"}, cwd : {None, "dir2"},
                   raise_on_error : {None, "True", "False"},
                   timeout : {NoTimeout, Seconds(0), Seconds(2), Timedelta(0, 0)},
                   env : {None, "{}", "env2"}]
    /\ r_idle /\ t_idle /\ u_idle /\ p_idle /\ runs_idle

NextRunCommand ==
    \/ RunCommandCall
    \/ RunCommandDone
    \/ Spawn
    \/ ChildWriteStdout
    \/ ChildWriteStderr
    \/ ChildExit
    \/ WaitReturns
    \/ WaitTimesOut
    \/ Communicate

SpecRunCommand == InitRunCommand /\ [][NextRunCommand]_vars

-----------------------------------------------------------------------------
(* util.retry_async_run_cmd *)

\* exception classes a coroutine may raise; CommandError derives from
\* RuntimeError (line 32), asyncio's TimeoutError does not
ExceptionKinds == {"RuntimeError", "CommandError", "TimeoutError"}
IsRuntimeErrorMutant(kind) == TRUE
IsRuntimeErrorMutantOSError(kind) == kind \in {"RuntimeError", "CommandError", "TimeoutError"}
IsRuntimeError(kind) == kind \in {"RuntimeError", "CommandError"}

\* values a coroutine may return
ReturnValues == {CommandResult(0, <<>>, <<>>), CommandResult(0, <<"M">>, <<>>)}

\* line 167: `for i in range(retries)` has a next value
InRangeMutantZero(n, r) == n < r \/ (r = 0 /\ n = 0)
InRangeMutant(n, r) == n < r - 1
InRange(n, r) == n < r

\* line 176
IsLastAttemptMutant(n, r) == n = r
IsLastAttempt(n, r) == n = r - 1

\* line 167: the loop takes its next value, or is exhausted and line 180 is
\* reached
RetryLoop ==
    /\ t_pc = "loop"
    /\ IF InRange(i, retries)
       THEN /\ t_pc' = "call"
            /\ t_out' = t_out
       ELSE /\ t_pc' = "raised"
            /\ t_out' = Raised("AssertionError", NoResult, 0)
    /\ UNCHANGED <<retries, i, t_hist, r_vars, u_vars, p_vars, c_vars, runs>>

\* lines 169-170: the coroutine returns a value, which is returned at once
CoroutineReturns ==
    /\ t_pc = "call"
    /\ \E v \in ReturnValues :
          /\ t_hist' = Append(t_hist, Returned(v))
          /\ t_out' = Returned(v)
    /\ t_pc' = "returned"
    /\ UNCHANGED <<retries, i, r_vars, u_vars, p_vars, c_vars, runs>>

\* lines 171-179: the coroutine raises; a RuntimeError is swallowed unless
\* this was the last attempt, anything else is not caught
CoroutineRaises ==
    /\ t_pc = "call"
    /\ \E k \in ExceptionKinds :
          LET e == Raised(k, NoResult, Len(t_hist) + 1)
          IN  /\ t_hist' = Append(t_hist, e)
              /\ IF IsRuntimeError(k) /\ ~IsLastAttempt(i, retries)
                 THEN /\ i' = i + 1
                      /\ t_pc' = "loop"
                      /\ t_out' = t_out
                 ELSE /\ i' = i
                      /\ t_pc' = "raised"
                      /\ t_out' = e
    /\ UNCHANGED <<retries, r_vars, u_vars, p_vars, c_vars, runs>>

\* a call of retry_async_run_cmd with some value of `retries`
InitRetry ==
    /\ t_pc = "loop"
    /\ retries \in 0..MaxRetries
    /\ i = 0 /\ t_hist = <<>> /\ t_out = NoOutcome
    /\ r_idle /\ u_idle /\ p_idle /\ c_idle /\ runs_idle

NextRetry ==
    \/ RetryLoop
    \/ CoroutineReturns
    \/ CoroutineRaises

SpecRetry == InitRetry /\ [][NextRetry]_vars

-----------------------------------------------------------------------------
(* update.Updater.update_package *)

\* the TemporaryDirectory of line 99
Tmp == "tmp"
SourcePackage == <<"P", "/", "p">>
CommitMsg == "commit_msg"

\* names add_files may return
FileNames == {<<"f">>, <<"g">>}
RECURSIVE SeqsUpTo(_, _)
SeqsUpTo(S, n) ==
    IF n = 0 THEN {<<>>}
    ELSE LET shorter == SeqsUpTo(S, n - 1)
         IN  shorter \cup {Append(q, x) : q \in shorter, x \in S}
FileLists == SeqsUpTo(FileNames, MaxFiles)

Last(s) == s[Len(s)]

\* lines 104-112: run() hands every command to run_cmd with the scratch
\* directory as cwd, raise_on_error and a one minute timeout
RunArgs(verb) ==
    [cmd |-> verb, cwd |-> Tmp, raise_on_error |-> TRUE,
     timeout |-> Timedelta(1, 0), env |-> None]

\* the steps of update_package that run a command
CmdSteps == {"branch", "co", "add", "st", "rdelete_nochange", "vc", "ci",
             "service_wait", "sr", "rdelete_error"}

\* the command each step builds (lines 116, 124, 128, 130, 137, 142, 146, 149, 160)
Cmd(pc) ==
    LET c(verb, arg, msg) == [verb |-> verb, arg |-> arg, msg |-> msg]
    IN  CASE pc = "branch" -> c("branch", SourcePackage, "")
          [] pc = "co" -> c("co", target_pkg.v, "")
          [] pc = "add" -> c("add", written_files.names[written_files.next], "")
          [] pc = "st" -> c("st", <<>>, "")
          [] pc = "rdelete_nochange" ->
                c("rdelete", target_pkg.v, "cleanup as nothing changed")
          [] pc = "vc" -> c("vc", <<>>, CommitMsg)
          [] pc = "ci" -> c("ci", <<>>, CommitMsg)
          [] pc = "service_wait" ->
                c("service wait", Replace(target_pkg.v, "/", SP), "")
          [] pc = "sr" -> c("sr", <<>>, CommitMsg)
          [] pc = "rdelete_error" -> c("rdelete", target_pkg.v, "cleanup on error")

\* line 132
NothingChangedMutant(out) == FALSE
NothingChanged(out) == out = <<>>

\* line 135
RemoveUnchanged(cleanup_on_no_change) == cleanup_on_no_change

\* line 148
SubmitsMutant(submit_package) == TRUE
Submits(submit_package) == submit_package

\* line 156: `cleanup_on_error and target_pkg`; None and "" are both falsy
CleansUpMutantNever(cleanup_on_error, pkg) == FALSE
CleansUpMutantNoName(cleanup_on_error, pkg) == cleanup_on_error
CleansUp(cleanup_on_error, pkg) == cleanup_on_error /\ pkg.some /\ pkg.v # <<>>

AfterStepMutant(pc) ==
    CASE pc = "co" -> "add_files"
      [] pc = "rdelete_nochange" -> "exit"
      [] pc = "vc" -> "service_wait"
      [] pc = "ci" -> "service_wait"
      [] pc = "service_wait" -> IF flags.submit_package THEN "sr" ELSE "exit"
      [] pc = "sr" -> "exit"
\* where control goes when the command of step pc returned; "exit" leaves the
\* function (line 139, or the end of the try block)
AfterStep(pc) ==
    CASE pc = "co" -> "add_files"
      [] pc = "rdelete_nochange" -> "exit"
      [] pc = "vc" -> "ci"
      [] pc = "ci" -> "service_wait"
      [] pc = "service_wait" -> IF Submits(flags.submit_package) THEN "sr" ELSE "exit"
      [] pc = "sr" -> "exit"

ReturnsNone == Returned(NoResult)

\* run_cmd's frame is gone once its caller has the result
RunCmdConsumed ==
    /\ r_pc' = "idle" /\ r_args' = NoArgs /\ proc' = NoProc
    /\ retcode' = NoCode /\ r_out' = NoOutcome

\* line 99: the scratch directory is created
EnterTmp ==
    /\ u_pc = "start"
    /\ tmp_exists' = TRUE
    /\ u_pc' = "branch"
    /\ UNCHANGED <<u_wait, flags, target_pkg, written_files, st_out, exc, cmds, u_out,
                   r_vars, t_vars, orphans, p_vars, c_vars, runs>>

\* `await run(...)`: the command of the current step is handed to run_cmd
Issue ==
    /\ u_pc \in CmdSteps
    /\ ~u_wait
    /\ r_pc = "idle"
    /\ LET args == RunArgs(Cmd(u_pc).verb)
       IN  /\ cmds' = Append(cmds, [verb |-> Cmd(u_pc).verb, arg |-> Cmd(u_pc).arg,
                                    msg |-> Cmd(u_pc).msg, cwd |-> args.cwd])
           /\ r_args' = args
    /\ r_pc' = "spawn"
    /\ u_wait' = TRUE
    /\ UNCHANGED <<u_pc, flags, tmp_exists, target_pkg, written_files, st_out, exc,
                   u_out, proc, retcode, r_out, t_vars, orphans, p_vars, c_vars, runs>>

\* run_cmd raised: inside the try block the handler of line 151 takes the
\* exception; the run() of line 159 is inside the handler, so its exception
\* leaves update_package
RunRaises ==
    /\ u_wait
    /\ r_pc = "raised"
    /\ IF u_pc = "rdelete_error"
       THEN /\ u_out' = r_out
            /\ u_pc' = "exit"
            /\ exc' = exc
       ELSE /\ exc' = r_out
            /\ u_pc' = "except"
            /\ u_out' = u_out
    /\ u_wait' = FALSE
    /\ orphans' = IF proc.status = "running" THEN orphans \cup {Len(cmds)} ELSE orphans
    /\ RunCmdConsumed
    /\ UNCHANGED <<flags, tmp_exists, target_pkg, written_files, st_out, cmds, t_vars,
                   p_vars, c_vars, runs>>

\* a child that a timed-out run_cmd left running (line 94 raises, nothing
\* kills the process) ends on its own at some later time
OrphanExits ==
    /\ \E n \in orphans : orphans' = orphans \ {n}
    /\ UNCHANGED <<u_pc, u_wait, flags, tmp_exists, target_pkg, written_files, st_out,
                   exc, cmds, u_out, r_vars, t_vars, p_vars, c_vars, runs>>

\* lines 120-122: the third line of the output of `osc branch` is the
\* checkout instruction, its last word the branched package
BranchReturns ==
    /\ u_wait
    /\ u_pc = "branch"
    /\ r_pc = "returned"
    /\ LET stdout == Split(r_out.command_result.stdout, NL)
       IN  IF Len(stdout) < 3
           THEN /\ exc' = Raised("IndexError", NoResult, Len(cmds))
                /\ u_pc' = "except"
                /\ target_pkg' = target_pkg
           ELSE /\ target_pkg' = Some(Last(Split(stdout[3], SP)))
                /\ u_pc' = "co"
                /\ exc' = exc
    /\ u_wait' = FALSE
    /\ RunCmdConsumed
    /\ UNCHANGED <<flags, tmp_exists, written_files, st_out, cmds, u_out,
                   t_vars, orphans, p_vars, c_vars, runs>>

\* lines 124, 136-139, 141-149: a command whose output is not looked at returned
CommandReturns ==
    /\ u_wait
    /\ u_pc \in {"co", "rdelete_nochange", "vc", "ci", "service_wait", "sr"}
    /\ r_pc = "returned"
    /\ u_pc' = AfterStep(u_pc)
    /\ u_out' = IF AfterStep(u_pc) = "exit" THEN ReturnsNone ELSE u_out
    /\ u_wait' = FALSE
    /\ RunCmdConsumed
    /\ UNCHANGED <<flags, tmp_exists, target_pkg, written_files, st_out, exc, cmds,
                   t_vars, orphans, p_vars, c_vars, runs>>

\* line 126: the caller's add_files returns the names it wrote
AddFilesReturns ==
    /\ u_pc = "add_files"
    /\ \E files \in FileLists :
          /\ written_files' = [names |-> files, next |-> 1]
          /\ u_pc' = IF files = <<>> THEN "st" ELSE "add"
    /\ UNCHANGED <<u_wait, flags, tmp_exists, target_pkg, st_out, exc, cmds, u_out,
                   r_vars, t_vars, orphans, p_vars, c_vars, runs>>

\* line 126: the caller's add_files raises
AddFilesRaises ==
    /\ u_pc = "add_files"
    /\ exc' = Raised("Exception", NoResult, Len(cmds))
    /\ u_pc' = "except"
    /\ UNCHANGED <<u_wait, flags, tmp_exists, target_pkg, written_files, st_out, cmds,
                   u_out, r_vars, t_vars, orphans, p_vars, c_vars, runs>>

\* lines 127-128: one `osc add` returned, on to the next name
AddReturns ==
    /\ u_wait
    /\ u_pc = "add"
    /\ r_pc = "returned"
    /\ written_files' = [written_files EXCEPT !.next = @ + 1]
    /\ u_pc' = IF written_files.next + 1 > Len(written_files.names) THEN "st" ELSE "add"
    /\ u_wait' = FALSE
    /\ RunCmdConsumed
    /\ UNCHANGED <<flags, tmp_exists, target_pkg, st_out, exc, cmds, u_out,
                   t_vars, orphans, p_vars, c_vars, runs>>

\* lines 130-139: empty status output means nothing changed
StReturns ==
    /\ u_wait
    /\ u_pc = "st"
    /\ r_pc = "returned"
    /\ st_out' = Some(r_out.command_result.stdout)
    /\ IF NothingChanged(r_out.command_result.stdout)
       THEN IF RemoveUnchanged(flags.cleanup_on_no_change)
            THEN /\ u_pc' = "rdelete_nochange"
                 /\ u_out' = u_out
            ELSE /\ u_pc' = "exit"
                 /\ u_out' = ReturnsNone
       ELSE /\ u_pc' = "vc"
            /\ u_out' = u_out
    /\ u_wait' = FALSE
    /\ RunCmdConsumed
    /\ UNCHANGED <<flags, tmp_exists, target_pkg, written_files, exc, cmds,
                   t_vars, orphans, p_vars, c_vars, runs>>

\* lines 151-158 and 162: the handler cleans up remotely, or re-raises at once
Except ==
    /\ u_pc = "except"
    /\ IF CleansUp(flags.cleanup_on_error, target_pkg)
       THEN /\ u_pc' = "rdelete_error"
            /\ u_out' = u_out
       ELSE /\ u_pc' = "exit"
            /\ u_out' = exc
    /\ UNCHANGED <<u_wait, flags, tmp_exists, target_pkg, written_files, st_out, exc,
                   cmds, r_vars, t_vars, orphans, p_vars, c_vars, runs>>

\* lines 159-162: the cleanup command returned, the handler re-raises exc
CleanupReturns ==
    /\ u_wait
    /\ u_pc = "rdelete_error"
    /\ r_pc = "returned"
    /\ u_out' = exc
    /\ u_pc' = "exit"
    /\ u_wait' = FALSE
    /\ RunCmdConsumed
    /\ UNCHANGED <<flags, tmp_exists, target_pkg, written_files, st_out, exc, cmds,
                   t_vars, orphans, p_vars, c_vars, runs>>

\* line 99: leaving the `async with` block, by return or by exception,
\* removes the scratch directory; then the caller has control
ExitTmpMutant ==
    /\ u_pc = "exit"
    /\ tmp_exists' = (u_out.kind # "return")
    /\ u_pc' = "done"
    /\ UNCHANGED <<u_wait, flags, target_pkg, written_files, st_out, exc, cmds, u_out,
                   r_vars, t_vars, orphans, p_vars, c_vars, runs>>
ExitTmp ==
    /\ u_pc = "exit"
    /\ tmp_exists' = FALSE
    /\ u_pc' = "done"
    /\ UNCHANGED <<u_wait, flags, target_pkg, written_files, st_out, exc, cmds, u_out,
                   r_vars, t_vars, orphans, p_vars, c_vars, runs>>

\* a call of update_package with some values of its three flags
Init ==
    /\ u_pc = "start" /\ u_wait = FALSE
    /\ flags \in [cleanup_on_error : BOOLEAN, submit_package : BOOLEAN,
                  cleanup_on_no_change : BOOLEAN]
    /\ tmp_exists = FALSE
    /\ target_pkg = NoPkg
    /\ written_files = [names |-> <<>>, next |-> 1]
    /\ st_out = NoPkg
    /\ exc = NoOutcome
    /\ cmds = <<>>
    /\ u_out = NoOutcome
    /\ orphans = {}
    /\ r_idle /\ t_idle /\ p_idle /\ c_idle /\ runs_idle

Next ==
    \/ EnterTmp
    \/ Issue
    \/ RunRaises
    \/ BranchReturns
    \/ CommandReturns
    \/ AddFilesReturns
    \/ AddFilesRaises
    \/ AddReturns
    \/ StReturns
    \/ Except
    \/ CleanupReturns
    \/ ExitTmp
    \/ OrphanExits
    \/ Spawn
    \/ ChildWriteStdout
    \/ ChildWriteStderr
    \/ ChildExit
    \/ WaitReturns
    \/ WaitTimesOut
    \/ Communicate

Spec == Init /\ [][Next]_vars

-----------------------------------------------------------------------------
(* util.retry_async_run_cmd around util.run_cmd *)

\* the coroutine is `lambda: run_cmd(cmd, timeout=1)`: raise_on_error keeps
\* its default (line 54)
WrappedArgs == [cmd |-> "osc", cwd |-> None, raise_on_error |-> TRUE,
                timeout |-> Seconds(1), env |-> None]

\* line 169: coroutine() is called and awaited
CallRunCmd ==
    /\ t_pc = "call"
    /\ r_pc = "idle"
    /\ r_args' = WrappedArgs
    /\ r_pc' = "spawn"
    /\ UNCHANGED <<proc, retcode, r_out, t_vars, u_vars, p_vars, c_vars, runs>>

\* lines 169-170: run_cmd returned its CommandResult
RunCmdReturnsToRetry ==
    /\ t_pc = "call"
    /\ r_pc = "returned"
    /\ t_hist' = Append(t_hist, r_out)
    /\ t_out' = r_out
    /\ t_pc' = "returned"
    /\ RunCmdConsumed
    /\ UNCHANGED <<retries, i, u_vars, p_vars, c_vars, runs>>

\* lines 171-179: run_cmd raised; only a RuntimeError is caught
RunCmdRaisesToRetry ==
    /\ t_pc = "call"
    /\ r_pc = "raised"
    /\ LET e == [r_out EXCEPT !.id = Len(t_hist) + 1]
       IN  /\ t_hist' = Append(t_hist, e)
           /\ IF IsRuntimeError(e.kind) /\ ~IsLastAttempt(i, retries)
              THEN /\ i' = i + 1
                   /\ t_pc' = "loop"
                   /\ t_out' = t_out
              ELSE /\ i' = i
                   /\ t_pc' = "raised"
                   /\ t_out' = e
    /\ RunCmdConsumed
    /\ UNCHANGED <<retries, u_vars, p_vars, c_vars, runs>>

NextRetryRunCmd ==
    \/ RetryLoop
    \/ CallRunCmd
    \/ RunCmdReturnsToRetry
    \/ RunCmdRaisesToRetry
    \/ Spawn
    \/ ChildWriteStdout
    \/ ChildWriteStderr
    \/ ChildExit
    \/ WaitReturns
    \/ WaitTimesOut
    \/ Communicate

\* the calls of retry_async_run_cmd are those of InitRetry
SpecRetryRunCmd == InitRetry /\ [][NextRetryRunCmd]_vars

-----------------------------------------------------------------------------
(* submitrequest.SubmitRequest.from_osc_output *)

\* the values of the enum RequestState (lines 15-20)
Accepted == <<"a", "c", "c", "e", "p", "t", "e", "d">>
Review == <<"r", "e", "v", "i", "e", "w">>
Declined == <<"d", "e", "c", "l", "i", "n", "e", "d">>
New == <<"n", "e", "w">>
Revoked == <<"r", "e", "v", "o", "k", "e", "d">>
Superseded == <<"s", "u", "p", "e", "r", "s", "e", "d", "e", "d">>
RequestState == {Accepted, Review, Declined, New, Revoked, Superseded}

\* the literals the parser compares tokens with
CreatedTokMutant == <<"C", "r", "e", "a", "t", "e", "d", ":">>
CreatedTok == <<"C", "r", "e", "a", "t", "e", "d">>
SubmitTok == <<"s", "u", "b", "m", "i", "t", ":">>
ArrowTok == <<"-", ">">>
DescrTok == <<"D", "e", "s", "c", "r", ":">>
\* len("Descr: ") of line 109
DescrWidth == 7

\* a parse gives a record or raises; `err` is "" or the exception's class
NoReq == [id |-> 0, description |-> <<>>, source_project |-> <<>>,
          source_package |-> <<>>, source_revision |-> <<>>,
          destination_project |-> <<>>, state |-> <<>>]
ParseFails(kind) == [err |-> kind, req |-> NoReq]
Parsed(req) == [err |-> "", req |-> req]

BaseStateMutant(state_str) == state_str
\* lines 76-77: re.match(r"^(?P<state>\S+)\(\S+\)$", state_str) on a token
\* without whitespace; the first \S+ is greedy, so the group ends before the
\* last "(" that still leaves one character between it and the final ")"
BaseState(state_str) ==
    LET n == Len(state_str)
        opens == {p \in 2..(n - 2) : state_str[p] = "("}
    IN  IF n >= 4 /\ state_str[n] = ")" /\ opens # {}
        THEN SubSeq(state_str, 1, (CHOOSE p \in opens : \A q \in opens : q <= p) - 1)
        ELSE state_str

IsContinuedDescrMutant(line, indent_length) == Len(LeadingSpace(line)) >= indent_length
\* line 110: line[:indent_length] == " " * indent_length
IsContinuedDescr(line, indent_length) ==
    /\ Len(line) >= indent_length
    /\ \A k \in 1..indent_length : line[k] = SP

\* line 113: what a continuation line adds to the description
Continued(description, line) == description \o <<SP>> \o LStrip(line)

NoDescriptionMutant(d) == ~d.some
\* line 125: `not description`
NoDescription(d) == ~d.some \/ d.v = <<>>

\* lines 106-123: the loop over the lines after the submit line, from line k
\* on; `d` is the Optional description and `started` is description_started
RECURSIVE DescrLoop(_, _, _, _, _)
DescrLoop(lines, k, indent_length, d, started) ==
    IF k > Len(lines) THEN [err |-> "", d |-> d]
    ELSE LET line == lines[k]
             tmp == SplitWs(line)
         IN  IF started
             THEN IF IsContinuedDescr(line, indent_length)
                  THEN IF d.v = <<>>
                       THEN [err |-> "AssertionError", d |-> d]
                       ELSE DescrLoop(lines, k + 1, indent_length,
                                      Some(Continued(d.v, line)), TRUE)
                  ELSE [err |-> "", d |-> d]
             ELSE IF tmp = <<>> THEN [err |-> "IndexError", d |-> d]
             ELSE IF tmp[1] # DescrTok
                  THEN DescrLoop(lines, k + 1, indent_length, d, FALSE)
             ELSE DescrLoop(lines, k + 1, indent_length,
                            Some(Join(Tail(tmp), <<SP>>)), TRUE)

\* lines 68-138
from_osc_output(stdout) ==
    LET lines == SplitLines(Strip(stdout))
        tmp == SplitWs(lines[1])
        colon == Split(tmp[2], ":")
        state_str == BaseState(colon[2])
        second == SplitWs(lines[2])
        submit_idx == IF second[1] = CreatedTok THEN 3 ELSE 2
        toks == SplitWs(lines[submit_idx])
        indent == LeadingSpace(lines[submit_idx])
        loop == DescrLoop(lines, submit_idx + 1, Len(indent) + DescrWidth, NoPkg, FALSE)
        at == Split(toks[2], "@")
        slash == Split(at[1], "/")
    IN  IF lines = <<>> THEN ParseFails("IndexError")
        ELSE IF ~IsInt(tmp[1]) THEN ParseFails("ValueError")
        ELSE IF Len(tmp) < 2 \/ Len(colon) < 2 THEN ParseFails("IndexError")
        ELSE IF state_str \notin RequestState THEN ParseFails("ValueError")
        ELSE IF Len(lines) < 2 \/ second = <<>> THEN ParseFails("IndexError")
        ELSE IF Len(lines) < submit_idx THEN ParseFails("IndexError")
        ELSE IF Len(toks) # 4 THEN ParseFails("ValueError")
        ELSE IF ~(toks[1] = SubmitTok /\ toks[3] = ArrowTok)
             THEN ParseFails("AssertionError")
        ELSE IF indent = <<>> THEN ParseFails("AssertionError")
        ELSE IF loop.err # "" THEN ParseFails(loop.err)
        ELSE IF NoDescription(loop.d) THEN ParseFails("ValueError")
        ELSE IF Len(at) # 2 \/ Len(slash) # 2 THEN ParseFails("ValueError")
        ELSE Parsed([id |-> ToInt(tmp[1]), description |-> loop.d.v,
                     source_project |-> slash[1], source_package |-> slash[2],
                     source_revision |-> at[2], destination_project |-> toks[4],
                     state |-> state_str])

-----------------------------------------------------------------------------
(* submitrequest._submit_requests_from_osc *)

\* the text osc prints when there is no request
Sentinel == <<"N", "o", SP, "r", "e", "s", "u", "l", "t", "s", SP, "f", "o", "r", SP, "p", "a", "c", "k", "a", "g", "e">>

HasSentinelMutant(stdout) ==
    Len(stdout) >= Len(Sentinel) /\ SubSeq(stdout, 1, Len(Sentinel)) = Sentinel
\* line 142: "No results for package" in stdout
HasSentinel(stdout) == Contains(stdout, Sentinel)

ChunksMutant(stdout) == SplitOn(stdout, <<NL>>)
\* lines 146-150: stdout.split("\n\n")
Chunks(stdout) == SplitOn(stdout, <<NL, NL>>)

PropagatesMutant(err) == FALSE
\* line 151 is not inside a try: an exception of from_osc_output leaves
\* _submit_requests_from_osc
Propagates(err) == err # ""

\* lines 142-143
SentinelFound ==
    /\ p_pc = "call"
    /\ HasSentinel(p_stdout)
    /\ p_out' = [kind |-> "return", list |-> <<>>]
    /\ p_pc' = "returned"
    /\ UNCHANGED <<p_blocks, p_stdout, p_chunks, p_res, r_vars, t_vars, u_vars, c_vars, runs>>

\* lines 145-150
SplitChunks ==
    /\ p_pc = "call"
    /\ ~HasSentinel(p_stdout)
    /\ p_chunks' = [list |-> Chunks(p_stdout), next |-> 1]
    /\ p_res' = <<>>
    /\ p_pc' = "loop"
    /\ UNCHANGED <<p_blocks, p_stdout, p_out, r_vars, t_vars, u_vars, c_vars, runs>>

\* line 151: the next chunk parses and its record is appended to res
ParseChunk ==
    /\ p_pc = "loop"
    /\ p_chunks.next <= Len(p_chunks.list)
    /\ LET parse == from_osc_output(p_chunks.list[p_chunks.next])
       IN  /\ ~Propagates(parse.err)
           /\ p_res' = Append(p_res, parse.req)
    /\ p_chunks' = [p_chunks EXCEPT !.next = @ + 1]
    /\ UNCHANGED <<p_pc, p_blocks, p_stdout, p_out, r_vars, t_vars, u_vars, c_vars, runs>>

\* line 151: the next chunk does not parse
ParseChunkRaises ==
    /\ p_pc = "loop"
    /\ p_chunks.next <= Len(p_chunks.list)
    /\ LET parse == from_osc_output(p_chunks.list[p_chunks.next])
       IN  /\ Propagates(parse.err)
           /\ p_out' = [kind |-> parse.err, list |-> <<>>]
    /\ p_pc' = "raised"
    /\ UNCHANGED <<p_blocks, p_stdout, p_chunks, p_res, r_vars, t_vars, u_vars, c_vars, runs>>

\* line 153
ReturnRes ==
    /\ p_pc = "loop"
    /\ p_chunks.next > Len(p_chunks.list)
    /\ p_out' = [kind |-> "return", list |-> p_res]
    /\ p_pc' = "returned"
    /\ UNCHANGED <<p_blocks, p_stdout, p_chunks, p_res, r_vars, t_vars, u_vars, c_vars, runs>>

-----------------------------------------------------------------------------
(* The osc output handed to the parser: request blocks as `osc request list` *)
(* prints them (test/test_submitrequest.py), with short names               *)

Pad(n) == [k \in 1..n |-> SP]

\* the first line of a block: id, State:, By:
Header(id, state_tok) == id \o <<SP, SP, "S", "t", "a", "t", "e", ":">> \o state_tok \o <<SP, "B", "y", ":", "u">>
\* the line newer versions of osc print after it
CreatedLine == <<SP, SP, "C", "r", "e", "a", "t", "e", "d", SP, "b", "y", ":", SP, "u">>
\* the submit line, indented by two spaces
SubmitIndent == 2
Src == <<"P", "/", "p", "@", "2">>
SrcNoAt == <<"P", "/", "p">>
SubmitLine(src) == Pad(SubmitIndent) \o <<"s", "u", "b", "m", "i", "t", ":", SP, SP>> \o src \o <<SP, "-", ">", SP, "D">>
\* a line the parser has no use for
ReviewLine == <<SP, SP, "R", "e", "v", "i", "e", "w", SP, "b", "y", ":", SP, "g">>
DescrLine(first) == Pad(SubmitIndent) \o <<"D", "e", "s", "c", "r", ":", SP>> \o first
\* where the text of the description starts
DescrColumn == SubmitIndent + DescrWidth

\* a block and the parts it was printed from; `first` is the text after
\* "Descr: " (NoPkg: no Descr line), `conts` the lines after the Descr line,
\* `tail` the lines after those, `src` the source of the submit line (NoPkg:
\* no submit line)
Block(id, base, sub, created, src, first, conts, tail) ==
    [kind |-> "request", id |-> id, base |-> base, sub |-> sub, created |-> created,
     src |-> src, first |-> first, conts |-> conts, tail |-> tail,
     text |-> Join(<<Header(id.tok, base \o sub)>>
                   \o (IF created THEN <<CreatedLine>> ELSE <<>>)
                   \o (IF src.some THEN <<SubmitLine(src.v)>> ELSE <<>>)
                   \o <<ReviewLine>>
                   \o (IF first.some THEN <<DescrLine(first.v)>> ELSE <<>>)
                   \o conts \o tail, <<NL>>)]

\* what osc prints instead of blocks when there is no request
SentinelBlock ==
    [kind |-> "sentinel", id |-> [tok |-> <<>>, n |-> 0], base |-> <<>>, sub |-> <<>>,
     created |-> FALSE, src |-> NoPkg, first |-> NoPkg, conts |-> <<>>, tail |-> <<>>,
     text |-> Sentinel \o <<SP, "p">>]

Id7 == [tok |-> <<"7">>, n |-> 7]
Id12 == [tok |-> <<"1", "2">>, n |-> 12]
SubStatus == <<"(", "o", "k", ")">>
BadState == <<"f", "o", "o">>

\* lines that may follow the Descr line: indented to the column of the
\* description text or deeper with spaces, the last with a trailing space,
\* and indented to that column with tabs
ContLines ==
    {Pad(DescrColumn) \o <<"c">>, Pad(DescrColumn + 2) \o <<"d", SP, "e">>,
     Pad(DescrColumn) \o <<"e", SP>>, [k \in 1..DescrColumn |-> TAB] \o <<"t">>}
\* lines after those: nothing, a Comment field, a Comment field with a
\* continuation of its own, a line indented one column less
CommentLine == <<SP, SP, "C", "o", "m", "m", "e", "n", "t", ":", SP, "z">>
Tails ==
    {<<>>, <<CommentLine>>, <<CommentLine, Pad(DescrColumn) \o <<"y">>>>,
     <<Pad(DescrColumn - 1) \o <<"w">>>>}
\* texts after "Descr: ": none, one word, two words, two words two spaces apart
Firsts == {<<>>, <<"a">>, <<"a", SP, "b">>, <<"a", SP, SP, "b">>}

\* one block per layout of the description
LayoutBlocks ==
    {Block(Id7, New, <<>>, created, Some(Src), first, conts, tail) :
        created \in BOOLEAN, first \in {NoPkg} \cup {Some(f) : f \in Firsts},
        conts \in SeqsUpTo(ContLines, MaxConts), tail \in Tails}

\* one block per State: token
StateBlocks ==
    {Block(Id7, base, sub, created, Some(Src), Some(<<"a">>), <<>>, <<>>) :
        base \in RequestState \cup {BadState}, sub \in {<<>>, SubStatus},
        created \in BOOLEAN}

\* the blocks of a listing of several requests: three that follow the
\* format, one of them with the sentinel in its description, and one for
\* each way of not following it
GoodBlocks ==
    {Block(Id7, New, <<>>, FALSE, Some(Src), Some(<<"a">>), <<>>, <<>>),
     Block(Id12, Review, SubStatus, TRUE, Some(Src), Some(<<"a", SP, "b">>),
           <<Pad(DescrColumn) \o <<"c">>>>, <<CommentLine>>),
     Block(Id12, Declined, <<>>, FALSE, Some(Src), Some(Sentinel), <<>>, <<>>)}
BadBlocks ==
    {Block([tok |-> <<"x">>, n |-> -1], New, <<>>, FALSE, Some(Src), Some(<<"a">>), <<>>, <<>>),
     Block(Id7, BadState, <<>>, FALSE, Some(Src), Some(<<"a">>), <<>>, <<>>),
     Block(Id7, New, <<>>, FALSE, NoPkg, Some(<<"a">>), <<>>, <<>>),
     Block(Id7, New, <<>>, FALSE, Some(Src), NoPkg, <<>>, <<CommentLine>>),
     Block(Id7, New, <<>>, FALSE, Some(Src), Some(<<>>), <<>>, <<>>),
     Block(Id7, New, <<>>, FALSE, Some(SrcNoAt), Some(<<"a">>), <<>>, <<>>)}
ListingBlocks == GoodBlocks \cup BadBlocks \cup {SentinelBlock}

\* what stands between two blocks: one blank line as in most of the listing
\* of test_request_list_from_osc_output, two as before its last block, three
Gaps == {<<NL, NL>>, <<NL, NL, NL>>, <<NL, NL, NL, NL>>}

\* the raw output printed from a sequence of blocks: the same gap between
\* every two blocks, with or without a newline at the end
Listing(blocks, gap, end) ==
    Join([k \in 1..Len(blocks) |-> blocks[k].text], gap) \o end

\* a call of _submit_requests_from_osc on the output printed from some blocks
InitParse ==
    /\ p_pc = "call"
    /\ p_blocks \in SeqsUpTo(ListingBlocks, MaxBlocks)
                    \cup {<<b>> : b \in LayoutBlocks \cup StateBlocks}
    /\ p_stdout \in {Listing(p_blocks, gap, end) : gap \in Gaps, end \in {<<>>, <<NL>>}}
    /\ p_chunks = [list |-> <<>>, next |-> 1]
    /\ p_res = <<>>
    /\ p_out = NoParse
    /\ r_idle /\ t_idle /\ u_idle /\ c_idle /\ runs_idle

NextParse ==
    \/ SentinelFound
    \/ SplitChunks
    \/ ParseChunk
    \/ ParseChunkRaises
    \/ ReturnRes

SpecParse == InitParse /\ [][NextParse]_vars

-----------------------------------------------------------------------------
(* Two calls of update_package at once: asyncio runs one coroutine until its *)
(* next await, so a step of one call is what it does between two awaits of  *)
(* run() or add_files(); run_cmd is what it gives run(): a text or a failure *)

\* names TemporaryDirectory (line 99) can pick: mkdtemp gives a name that
\* does not exist at that moment
Dirs == {"tmp1", "tmp2"}
FreshDirsMutant(existing) == Dirs
FreshDirs(existing) == Dirs \ existing

\* what `osc branch` can print as its third line: osc names the branched
\* package; with target_project (line 117) two source packages of the same
\* name go to the same branched package
BranchedNames == {<<"h", "/", "p">>, <<"h", "/", "q">>}

\* the texts run() can return for a command: `osc branch` prints the checkout
\* instruction as its third line, or fewer lines
OutputsOf(verb) ==
    IF verb = "branch"
    THEN {<<NL, NL, "c", SP>> \o n \o <<NL>> : n \in BranchedNames} \cup {<<"A", NL>>}
    ELSE IF verb = "st" THEN {<<>>, <<"M">>}
    ELSE {<<>>}

\* the command a call builds at its step (lines 116, 124, 128, 130, 137, 142,
\* 146, 149, 160), run in its scratch directory (line 107)
CmdOf(r) ==
    LET c(verb, arg, msg) ==
            [verb |-> verb, arg |-> arg, msg |-> msg, cwd |-> r.tmp,
             o |-> IF verb = "co" THEN r.tmp ELSE ""]
    IN  CASE r.pc = "branch" -> c("branch", r.source_package, "")
          [] r.pc = "co" -> c("co", r.target_pkg.v, "")
          [] r.pc = "add" -> c("add", r.written_files.names[r.written_files.next], "")
          [] r.pc = "st" -> c("st", <<>>, "")
          [] r.pc = "rdelete_nochange" ->
                c("rdelete", r.target_pkg.v, "cleanup as nothing changed")
          [] r.pc = "vc" -> c("vc", <<>>, CommitMsg)
          [] r.pc = "ci" -> c("ci", <<>>, CommitMsg)
          [] r.pc = "service_wait" ->
                c("service wait", Replace(r.target_pkg.v, "/", SP), "")
          [] r.pc = "sr" -> c("sr", <<>>, CommitMsg)
          [] r.pc = "rdelete_error" -> c("rdelete", r.target_pkg.v, "cleanup on error")

\* lines 120-149: what a call does with the text run() returned, up to its
\* next await
AfterReturn(r, stdout) ==
    LET lines == Split(stdout, NL)
        leave == [r EXCEPT !.pc = "exit", !.out = ReturnsNone]
    IN  CASE r.pc = "branch" ->
                IF Len(lines) < 3
                THEN [r EXCEPT !.pc = "except",
                               !.exc = Raised("IndexError", NoResult, Len(r.cmds))]
                ELSE [r EXCEPT !.pc = "co",
                               !.target_pkg = Some(Last(Split(lines[3], SP)))]
          [] r.pc = "co" -> [r EXCEPT !.pc = "add_files"]
          [] r.pc = "add" ->
                [r EXCEPT !.written_files.next = @ + 1,
                          !.pc = IF r.written_files.next + 1 > Len(r.written_files.names)
                                 THEN "st" ELSE "add"]
          [] r.pc = "st" ->
                IF NothingChanged(stdout)
                THEN IF RemoveUnchanged(r.flags.cleanup_on_no_change)
                     THEN [r EXCEPT !.pc = "rdelete_nochange"]
                     ELSE leave
                ELSE [r EXCEPT !.pc = "vc"]
          [] r.pc = "rdelete_nochange" -> leave
          [] r.pc = "vc" -> [r EXCEPT !.pc = "ci"]
          [] r.pc = "ci" -> [r EXCEPT !.pc = "service_wait"]
          [] r.pc = "service_wait" ->
                IF Submits(r.flags.submit_package) THEN [r EXCEPT !.pc = "sr"] ELSE leave
          [] r.pc = "sr" -> leave
          [] r.pc = "rdelete_error" -> [r EXCEPT !.pc = "exit", !.out = r.exc]

\* line 99: the call gets a scratch directory of its own
EnterTmpOf(k) ==
    /\ runs[k].pc = "start"
    /\ \E d \in FreshDirs({runs[j].tmp : j \in {j \in Invocations : runs[j].tmp # ""}}) :
          runs' = [runs EXCEPT ![k].tmp = d, ![k].pc = "branch"]
    /\ UNCHANGED <<r_vars, t_vars, u_vars, p_vars, c_vars>>

\* `await run(...)`: the call hands its command to run_cmd and is suspended
IssueOf(k) ==
    /\ runs[k].pc \in CmdSteps
    /\ ~runs[k].wait
    /\ runs' = [runs EXCEPT ![k].cmds = Append(@, CmdOf(runs[k])), ![k].wait = TRUE]
    /\ UNCHANGED <<r_vars, t_vars, u_vars, p_vars, c_vars>>

\* run() returned a text and the call goes on to its next await
RunReturnsOf(k) ==
    /\ runs[k].wait
    /\ \E stdout \in OutputsOf(Last(runs[k].cmds).verb) :
          runs' = [runs EXCEPT ![k] = [AfterReturn(runs[k], stdout) EXCEPT !.wait = FALSE]]
    /\ UNCHANGED <<r_vars, t_vars, u_vars, p_vars, c_vars>>

\* run() raised, a CommandError standing for every failure of run_cmd: the
\* handler of line 151 takes the exception, unless it is that of the rdelete
\* of line 159
RunRaisesOf(k) ==
    /\ runs[k].wait
    /\ LET e == Raised("CommandError", NoResult, Len(runs[k].cmds))
       IN  runs' = [runs EXCEPT ![k] =
                       IF runs[k].pc = "rdelete_error"
                       THEN [@ EXCEPT !.out = e, !.pc = "exit", !.wait = FALSE]
                       ELSE [@ EXCEPT !.exc = e, !.pc = "except", !.wait = FALSE]]
    /\ UNCHANGED <<r_vars, t_vars, u_vars, p_vars, c_vars>>

\* line 126: add_files returns the one name it wrote, or raises
AddFilesOf(k) ==
    /\ runs[k].pc = "add_files"
    /\ \/ \E files \in {<< <<"f">> >>} :
             runs' = [runs EXCEPT ![k].written_files = [names |-> files, next |-> 1],
                                  ![k].pc = IF files = <<>> THEN "st" ELSE "add"]
       \/ runs' = [runs EXCEPT ![k].exc = Raised("Exception", NoResult, Len(runs[k].cmds)),
                               ![k].pc = "except"]
    /\ UNCHANGED <<r_vars, t_vars, u_vars, p_vars, c_vars>>

\* lines 151-158 and 162
ExceptOf(k) ==
    /\ runs[k].pc = "except"
    /\ runs' = [runs EXCEPT ![k] =
                   IF CleansUp(runs[k].flags.cleanup_on_error, runs[k].target_pkg)
                   THEN [@ EXCEPT !.pc = "rdelete_error"]
                   ELSE [@ EXCEPT !.pc = "exit", !.out = runs[k].exc]]
    /\ UNCHANGED <<r_vars, t_vars, u_vars, p_vars, c_vars>>

\* line 99: leaving the `async with` block removes the scratch directory
ExitTmpOf(k) ==
    /\ runs[k].pc = "exit"
    /\ runs' = [runs EXCEPT ![k].pc = "done", ![k].tmp = ""]
    /\ UNCHANGED <<r_vars, t_vars, u_vars, p_vars, c_vars>>

\* two calls on different source packages, each with its own clean-up flags;
\* submit_package keeps its default (line 66)
InitTwo ==
    /\ \E f \in [Invocations -> [cleanup_on_error : BOOLEAN, submit_package : {TRUE},
                                 cleanup_on_no_change : BOOLEAN]] :
          runs = [k \in Invocations |-> NoRun(k, f[k])]
    /\ r_idle /\ t_idle /\ u_idle /\ p_idle /\ c_idle

NextTwo ==
    \/ \E k \in Invocations : EnterTmpOf(k)
    \/ \E k \in Invocations : IssueOf(k)
    \/ \E k \in Invocations : RunReturnsOf(k)
    \/ \E k \in Invocations : RunRaisesOf(k)
    \/ \E k \in Invocations : AddFilesOf(k)
    \/ \E k \in Invocations : ExceptOf(k)
    \/ \E k \in Invocations : ExitTmpOf(k)

SpecTwo == InitTwo /\ [][NextTwo]_vars

-----------------------------------------------------------------------------
(* Vocabulary of the properties *)

HasVerb(v) == \E n \in 1..Len(cmds) : cmds[n].verb = v
RdeleteAt == {n \in 1..Len(cmds) : cmds[n].verb = "rdelete"}
\* a step inside the try block failed
Failed == exc # NoOutcome
\* the step whose failure exc is: exc.id commands had been issued when it was made
FailedStep ==
    CASE exc.kind = "Exception" -> "add_files"
      [] exc.kind = "IndexError" -> "branch"
      [] OTHER -> cmds[exc.id].verb
NameKnown == target_pkg.some /\ target_pkg.v # <<>>
Left == u_pc \in {"exit", "done"}
StatusEmpty == st_out.some /\ st_out.v = <<>>
StatusNonEmpty == st_out.some /\ st_out.v # <<>>
AllRecoverable(h) ==
    \A n \in 1..Len(h) : h[n].kind \in {"RuntimeError", "CommandError"}

-----------------------------------------------------------------------------
(* Properties of update_package, checked under Spec *)

\* C1: when the branched package name is known, cleanup_on_error is true and
\* one of co, add_files, add, st, vc, ci, service wait, sr fails, exactly one
\* rdelete is issued; it names the branched package, comes after the failing
\* step, and is there when update_package raises.
C1_OneCleanupOnError ==
    (/\ Left
     /\ flags.cleanup_on_error
     /\ NameKnown
     /\ Failed
     /\ FailedStep \in {"co", "add_files", "add", "st", "vc", "ci", "service wait", "sr"})
    => /\ u_out.kind \notin {"none", "return"}
       /\ \E n \in 1..Len(cmds) :
             /\ RdeleteAt = {n}
             /\ n > exc.id
             /\ cmds[n].arg = target_pkg.v
             /\ cmds[n].msg = "cleanup on error"

C1_Witness ==
    /\ u_pc = "done"
    /\ flags.cleanup_on_error
    /\ NameKnown
    /\ Failed
    /\ FailedStep = "service wait"
    /\ Cardinality(RdeleteAt) = 1
    /\ u_out = exc

\* C2 as stated: whenever a step fails, what update_package raises is that
\* step's failure, whatever the cleanup command does.
C2_RaisesOriginal ==
    (u_pc = "done" /\ Failed) => u_out = exc

\* C3 as stated: after an empty status no vc, ci, service wait or sr is
\* issued, update_package returns successfully, and an rdelete of the
\* branched package is issued iff cleanup_on_no_change.
C3_Original ==
    (u_pc = "done" /\ StatusEmpty)
    => /\ ~HasVerb("vc") /\ ~HasVerb("ci") /\ ~HasVerb("service wait") /\ ~HasVerb("sr")
       /\ u_out.kind = "return"
       /\ (\E n \in RdeleteAt : cmds[n].arg = target_pkg.v) <=> flags.cleanup_on_no_change

\* C3 amended: after an empty status no vc, ci, service wait or sr is issued
\* at any time; an rdelete of the branched package is issued iff
\* cleanup_on_no_change; update_package returns successfully unless that
\* rdelete fails, and then it raises.
C3_NoChange ==
    /\ StatusEmpty
       => ~HasVerb("vc") /\ ~HasVerb("ci") /\ ~HasVerb("service wait") /\ ~HasVerb("sr")
    /\ (u_pc = "done" /\ StatusEmpty)
       => /\ (\E n \in RdeleteAt : cmds[n].arg = target_pkg.v) <=> flags.cleanup_on_no_change
          /\ (u_out.kind = "return") <=> ~Failed
          /\ Failed => /\ FailedStep = "rdelete"
                       /\ cmds[exc.id].msg = "cleanup as nothing changed"
                       /\ u_out.kind \notin {"none", "return"}

C3_Witness ==
    /\ u_pc = "done"
    /\ StatusEmpty
    /\ flags.cleanup_on_no_change
    /\ u_out.kind = "return"
    /\ Cardinality(RdeleteAt) = 1

\* C8: the failure path issues an rdelete only if cleanup_on_error is true and
\* the branch step completed; when the branch step fails nothing else is
\* issued; with cleanup_on_error false nothing is issued after the failure.
C8_CleanupOnlyWhenAsked ==
    /\ \A n \in RdeleteAt :
          cmds[n].msg = "cleanup on error"
          => flags.cleanup_on_error /\ target_pkg.some /\ Failed /\ n > exc.id
    /\ (Failed /\ FailedStep = "branch") => Len(cmds) = 1
    /\ (Failed /\ ~flags.cleanup_on_error) => \A n \in RdeleteAt : n <= exc.id

C8_Witness ==
    /\ u_pc = "done"
    /\ flags.cleanup_on_error
    /\ exc.kind = "CommandError"
    /\ FailedStep = "branch"
    /\ Len(cmds) = 1

\* C9: every command runs in the scratch directory, which exists while a
\* command runs and is gone when control is back at the caller, on every
\* exit path and for every value of the flags.
C9_ScratchDirectory ==
    /\ \A n \in 1..Len(cmds) : cmds[n].cwd = Tmp
    /\ proc.status # "none" => proc.cwd = Tmp /\ tmp_exists
    /\ u_pc = "done" => ~tmp_exists

C9_Witness ==
    /\ u_pc = "done"
    /\ ~tmp_exists
    /\ Failed
    /\ u_out # exc
    /\ Len(cmds) >= 3

\* C10 as stated: sr only if submit_package; with submit_package false and a
\* non-empty status the run issues vc, ci and service wait and returns
\* successfully without sr.
C10_Original ==
    /\ HasVerb("sr") => flags.submit_package
    /\ (u_pc = "done" /\ ~flags.submit_package /\ StatusNonEmpty)
       => /\ HasVerb("vc") /\ HasVerb("ci") /\ HasVerb("service wait")
          /\ ~HasVerb("sr")
          /\ u_out.kind = "return"

\* C10 amended: sr only if submit_package; with submit_package false and a
\* non-empty status the run issues vc, then ci, then service wait, each only
\* after the one before succeeded, never sr; it returns successfully when all
\* three succeed and raises the failure of the one that failed otherwise
\* (after which only the cleanup rdelete may follow).
C10_SubmitOnlyWhenAsked ==
    /\ HasVerb("sr") => flags.submit_package
    /\ (u_pc = "done" /\ ~flags.submit_package /\ StatusNonEmpty)
       => LET st == CHOOSE n \in 1..Len(cmds) : cmds[n].verb = "st"
              last == IF Failed THEN exc.id ELSE Len(cmds)
              after == [n \in 1..(last - st) |-> cmds[st + n].verb]
          IN  /\ ~HasVerb("sr")
              /\ (u_out.kind = "return") <=> ~Failed
              /\ ~Failed => after = <<"vc", "ci", "service wait">>
              /\ Failed => /\ after \in {<<"vc">>, <<"vc", "ci">>,
                                         <<"vc", "ci", "service wait">>}
                           /\ \A n \in (last + 1)..Len(cmds) :
                                 cmds[n].msg = "cleanup on error"

C10_Witness ==
    /\ u_pc = "done"
    /\ ~flags.submit_package
    /\ StatusNonEmpty
    /\ u_out.kind = "return"
    /\ cmds[Len(cmds)].verb = "service wait"

-----------------------------------------------------------------------------
(* The order of the commands of update_package, checked under Spec *)

\* the commands of the workflow proper: all but the rdelete clean-ups
Workflow == SelectSeq(cmds, LAMBDA c : c.verb # "rdelete")
\* the verbs of a complete run, with one add for each name add_files returned
WorkflowOrder ==
    <<"branch", "co">> \o [k \in 1..Len(written_files.names) |-> "add"]
    \o <<"st", "vc", "ci", "service wait", "sr">>
\* the commands whose child process exists: the one being awaited and those
\* a timed-out run_cmd left behind
InFlight ==
    orphans \cup (IF u_wait /\ proc.status \in {"running", "exited"}
                  THEN {Len(cmds)} ELSE {})

-----------------------------------------------------------------------------
(* Properties of retry_async_run_cmd, checked under SpecRetry *)

\* C4: while fewer than `retries` calls were made and all of them failed with
\* a RuntimeError, another call is made; a call that returns is the last call
\* and its value is what retry_async_run_cmd returns. So an operation failing
\* k < retries times and then succeeding is called exactly k + 1 times.
C4_RetryUntilSuccess ==
    /\ (retries >= 1 /\ Len(t_hist) < retries /\ AllRecoverable(t_hist))
       => t_pc \in {"loop", "call"}
    /\ \A n \in 1..Len(t_hist) :
          t_hist[n].kind = "return"
          => /\ n = Len(t_hist)
             /\ n <= retries
             /\ AllRecoverable(SubSeq(t_hist, 1, n - 1))
             /\ t_pc = "returned"
             /\ t_out = t_hist[n]

C4_Witness ==
    /\ t_pc = "returned"
    /\ retries > 3
    /\ Len(t_hist) = 3
    /\ t_out = Returned(CommandResult(0, <<"M">>, <<>>))

\* C5: an operation that fails with a RuntimeError on every call is called
\* exactly `retries` times (never more), and the failure of the last call is
\* what retry_async_run_cmd raises.
C5_RaisesLastFailure ==
    /\ Len(t_hist) <= retries
    /\ (retries >= 1 /\ Len(t_hist) = retries /\ AllRecoverable(t_hist))
       => /\ t_pc = "raised"
          /\ t_out = t_hist[retries]
          /\ t_out.id = retries

C5_Witness ==
    /\ t_pc = "raised"
    /\ retries = 3
    /\ Len(t_hist) = 3
    /\ AllRecoverable(t_hist)

\* C19: a failure that is not a RuntimeError leaves retry_async_run_cmd on
\* the attempt where it occurs, whichever attempt that is, and the operation
\* is not called again
C19_OtherFailuresPropagate ==
    \A n \in 1..Len(t_hist) :
        t_hist[n].kind \notin {"return", "RuntimeError", "CommandError"}
        => /\ n = Len(t_hist)
           /\ t_pc = "raised"
           /\ t_out = t_hist[n]
           /\ t_out.id = n

\* the second of four allowed attempts failed with a TimeoutError after the
\* first had failed with a RuntimeError
C19_Witness ==
    /\ t_pc = "raised"
    /\ retries = 4
    /\ Len(t_hist) = 2
    /\ t_hist[1].kind = "RuntimeError"
    /\ t_hist[2].kind = "TimeoutError"
    /\ t_out = t_hist[2]

-----------------------------------------------------------------------------
(* Properties of retry_async_run_cmd around run_cmd, checked under SpecRetryRunCmd *)

\* after attempt n the retry layer went on: a further attempt was made or is
\* about to be made
WentOn(n) == Len(t_hist) > n \/ t_pc \in {"loop", "call"}

\* C20 as stated: a timeout of the wrapped run_cmd on an attempt that is not
\* the last one is discarded and a further attempt is made
C20_Original ==
    \A n \in 1..Len(t_hist) :
        (t_hist[n].kind = "TimeoutError" /\ n < retries) => WentOn(n)

\* C20: a timeout of the wrapped run_cmd is not retried: the TimeoutError is
\* not a RuntimeError, so it reaches the caller on the attempt where it
\* occurs; a CommandError on an attempt that is not the last one is retried
C20_TimeoutNotRetried ==
    \A n \in 1..Len(t_hist) :
        /\ t_hist[n].kind = "TimeoutError"
           => /\ n = Len(t_hist)
              /\ t_pc = "raised"
              /\ t_out = t_hist[n]
        /\ (t_hist[n].kind = "CommandError" /\ n < retries) => WentOn(n)

\* the first attempt failed with exit code 1 and was retried, the second
\* timed out and its TimeoutError reached the caller, with two attempts left
C20_Witness ==
    /\ t_pc = "raised"
    /\ retries = 4
    /\ Len(t_hist) = 2
    /\ t_hist[1].kind = "CommandError"
    /\ t_hist[2].kind = "TimeoutError"
    /\ t_out = t_hist[2]

-----------------------------------------------------------------------------
(* Properties of run_cmd, checked under SpecRunCmd *)

\* run_cmd is over and gave its caller something
Over == r_pc \in {"returned", "raised"}
Decodable == /\ decode(proc.script.stdout) # DecodeError
             /\ decode(proc.script.stderr) # DecodeError
\* what the child wrote, as text, with its exit code
ChildResult ==
    CommandResult(proc.script.exit_code, decode(proc.script.stdout),
                  decode(proc.script.stderr))

\* C6 as stated: when the child has not exited by the deadline, run_cmd fails
\* with TimeoutError and the child is terminated and reaped when that failure
\* reaches the caller.
C6_TimeoutKillsChild ==
    (Over /\ retcode = NoCode)
    => /\ r_out.kind = "TimeoutError"
       /\ proc.status = "reaped"

\* C7 as stated: for a child that exited, run_cmd raises CommandError iff the
\* exit code is non-zero and raise_on_error is true, the error carrying the
\* exit code and the captured output; in every other case it returns that
\* result. No CommandError carries exit code 0.
C7_Original ==
    /\ (Over /\ retcode # NoCode)
       => r_out = IF r_args.raise_on_error /\ proc.script.exit_code # 0
                  THEN Raised("CommandError", ChildResult, 0)
                  ELSE Returned(ChildResult)
    /\ r_out.kind = "CommandError" => r_out.command_result.exit_code # 0

\* C7 amended: the same for a child whose stdout and stderr are valid UTF-8;
\* when either is not, run_cmd raises UnicodeDecodeError. No CommandError
\* carries exit code 0.
C7_ExitCodeDecides ==
    /\ (Over /\ retcode # NoCode /\ Decodable)
       => r_out = IF r_args.raise_on_error /\ proc.script.exit_code # 0
                  THEN Raised("CommandError", ChildResult, 0)
                  ELSE Returned(ChildResult)
    /\ (Over /\ retcode # NoCode /\ ~Decodable)
       => r_pc = "raised" /\ r_out.kind = "UnicodeDecodeError"
    /\ r_out.kind = "CommandError" => r_out.command_result.exit_code # 0

C7_Witness ==
    /\ r_pc = "raised"
    /\ r_out.kind = "CommandError"
    /\ r_out.command_result = CommandResult(2, <<"U+00E9">>, <<"e">>)

-----------------------------------------------------------------------------
(* Properties of the submit request parser, checked under SpecParse *)

\* the call is over
ParseOver == p_pc \in {"returned", "raised"}

\* the block follows the format of a request: an integer id, one of the six
\* states with or without a sub-status, a submit line with project, package
\* and revision, and a Descr line with some text
WellFormed(b) ==
    /\ b.kind = "request"
    /\ b.id.n >= 0
    /\ b.base \in RequestState
    /\ b.src = Some(Src)
    /\ b.first.some /\ b.first.v # <<>>

\* the sentinel text is somewhere in the block
MentionsSentinel(b) == b.kind = "sentinel" \/ b.first = Some(Sentinel)

\* the blocks of the output are separated by one blank line
BlankLineSeparated == \E end \in {<<>>, <<NL>>} : p_stdout = Listing(p_blocks, <<NL, NL>>, end)

\* the record agrees with what the block was printed from
Matches(req, b) ==
    /\ req.id = b.id.n
    /\ req.state = b.base
    /\ req.source_project = <<"P">>
    /\ req.source_package = <<"p">>
    /\ req.source_revision = <<"2">>
    /\ req.destination_project = <<"D">>

C12_SentinelGivesEmptyList ==
    (/\ ParseOver
     /\ \E k \in 1..Len(p_blocks) : MentionsSentinel(p_blocks[k]))
    => /\ p_pc = "returned"
       /\ p_out = [kind |-> "return", list |-> <<>>]
       /\ p_res = <<>>

\* the sentinel came after a block that does not parse and before one that does
C12_Witness ==
    /\ p_pc = "returned"
    /\ Len(p_blocks) = 3
    /\ p_blocks[1].kind = "request" /\ ~WellFormed(p_blocks[1])
    /\ p_blocks[2].kind = "sentinel"
    /\ WellFormed(p_blocks[3]) /\ ~MentionsSentinel(p_blocks[3])
    /\ p_out.list = <<>>

\* the block does not follow the format of a request
Malformed(b) == b.kind = "request" /\ ~WellFormed(b)

\* C13: one malformed block, wherever it stands among the others, makes the
\* whole call fail: an exception leaves it and no list is returned
C13_OneBadBlockFailsAll ==
    (/\ ParseOver
     /\ \A k \in 1..Len(p_blocks) : ~MentionsSentinel(p_blocks[k])
     /\ \E k \in 1..Len(p_blocks) : Malformed(p_blocks[k]))
    => /\ p_pc = "raised"
       /\ p_out.kind \in {"ValueError", "IndexError", "AssertionError"}
       /\ p_out.list = <<>>

\* two blocks had been parsed when the third, malformed one made the call fail
C13_Witness ==
    /\ p_pc = "raised"
    /\ Len(p_blocks) = 3
    /\ WellFormed(p_blocks[1]) /\ WellFormed(p_blocks[2]) /\ Malformed(p_blocks[3])
    /\ \A k \in 1..3 : ~MentionsSentinel(p_blocks[k])
    /\ Len(p_res) = 2
    /\ p_out.list = <<>>

\* the one block of the output and the record made from it
TheBlock == p_blocks[1]
TheRecord == p_out.list[1]
OneRecord ==
    /\ p_pc = "returned"
    /\ Len(p_blocks) = 1 /\ TheBlock.kind = "request"
    /\ Len(p_out.list) = 1

\* the lines of the block after its Descr line, as from_osc_output gets them:
\* the whitespace at the end of the block is stripped at line 68
AfterDescr(b) ==
    LET rest == b.conts \o b.tail
    IN  [k \in 1..Len(rest) |-> IF k = Len(rest) THEN RStrip(rest[k]) ELSE rest[k]]

\* how many of the first entries of `marks` are TRUE
CountLeading(marks) ==
    CHOOSE j \in 0..Len(marks) :
        /\ \A k \in 1..j : marks[k]
        /\ j = Len(marks) \/ ~marks[j + 1]

\* the description made of `first` and the first lines of `rest` for which
\* `indented` holds, each without its leading whitespace
Described(first, rest, indented) ==
    Join(<<first>> \o [k \in 1..CountLeading(indented) |-> LStrip(rest[k])], <<SP>>)

\* the line is indented with whitespace of any kind up to the column where
\* the description text starts
IndentedWithWhitespace(line) == Len(LeadingSpace(line)) >= DescrColumn
\* the line starts with that many space characters
IndentedWithSpaces(line) ==
    Len(line) >= DescrColumn /\ SubSeq(line, 1, DescrColumn) = Pad(DescrColumn)

WellFormedButState(b) ==
    /\ b.kind = "request" /\ ~MentionsSentinel(b)
    /\ b.id.n >= 0
    /\ b.src = Some(Src)
    /\ b.first.some /\ b.first.v # <<>>

\* C15: the state of the record is the State: token without its trailing
\* parenthetical sub-status; a base token that is not one of the six states
\* makes from_osc_output fail
C15_StateWithoutSubStatus ==
    (ParseOver /\ Len(p_blocks) = 1 /\ WellFormedButState(TheBlock))
    => IF TheBlock.base \in {Accepted, Review, Declined, New, Revoked, Superseded}
       THEN OneRecord /\ TheRecord.state = TheBlock.base
       ELSE p_pc = "raised" /\ p_out = [kind |-> "ValueError", list |-> <<>>]

\* State:review(ok) was parsed to review
C15_Witness ==
    /\ OneRecord
    /\ TheBlock.base = Review /\ TheBlock.sub = SubStatus
    /\ TheRecord.state = Review

\* C16: every record has a non-empty description; a block without a Descr
\* line or with a Descr line without text makes from_osc_output fail
C16_DescriptionNotEmpty ==
    /\ \A k \in 1..Len(p_res) : p_res[k].description # <<>>
    /\ \A k \in 1..Len(p_out.list) : p_out.list[k].description # <<>>
    /\ (/\ ParseOver
        /\ Len(p_blocks) = 1 /\ TheBlock.kind = "request"
        /\ ~TheBlock.first.some \/ SplitWs(TheBlock.first.v) = <<>>)
       => p_pc = "raised" /\ p_out.list = <<>>

\* a Descr line without text, followed by a line indented like a
\* continuation, made the call fail
C16_Witness ==
    /\ p_pc = "raised"
    /\ Len(p_blocks) = 1
    /\ TheBlock.first = Some(<<>>)
    /\ Len(TheBlock.conts) >= 1 /\ IndentedWithSpaces(TheBlock.conts[1])
    /\ p_out.kind = "AssertionError"

-----------------------------------------------------------------------------
(* Properties of RunCommand, checked under SpecRunCommand *)

\* C17: run_cmd gets the value passed to the call for cwd, raise_on_error,
\* timeout and env whenever one is passed (anything but None), whatever the
\* instance's default, and the instance's default only when none is passed
C17_PerCallValueWins ==
    c_pc \in {"await", "done"}
    => /\ r_args.cwd = IF c_call.cwd # None THEN c_call.cwd ELSE c_self.cwd
       /\ r_args.raise_on_error = IF c_call.raise_on_error # None
                                  THEN c_call.raise_on_error = "True"
                                  ELSE c_self.raise_on_error
       /\ r_args.timeout = IF c_call.timeout # NoTimeout THEN c_call.timeout
                           ELSE c_self.timeout
       /\ r_args.env = IF c_call.env # None THEN c_call.env ELSE c_self.env

-----------------------------------------------------------------------------
(* The position of the submit line, checked under SpecParse *)

\* the block printed from the same parts without the "Created by" line
WithoutCreated(b) ==
    Block(b.id, b.base, b.sub, FALSE, b.src, b.first, b.conts, b.tail)

\* the second line of the block as the parser sees it
SecondLine(b) == SplitLines(Strip(b.text))[2]

\* C21: the submit line is line 2 of the block unless line 2 starts with the
\* token "Created", and then it is line 3: every well-formed block parses to
\* a record with the source and destination of its submit line, and a block
\* with a "Created by" line as line 2 parses to the very record (id, state,
\* source, destination, description) that the block without that line
\* parses to
C21_CreatedLineIsSkipped ==
    \A k \in 1..Len(p_blocks) :
        WellFormed(p_blocks[k]) =>
            LET parse == from_osc_output(p_blocks[k].text)
            IN  /\ parse.err = ""
                /\ Matches(parse.req, p_blocks[k])
                /\ k <= Len(p_res) => p_res[k] = parse.req
                /\ p_blocks[k].created =>
                      /\ SplitWs(SecondLine(p_blocks[k]))[1] = CreatedTok
                      /\ SplitWs(SecondLine(WithoutCreated(p_blocks[k])))[1] = SubmitTok
                      /\ from_osc_output(WithoutCreated(p_blocks[k]).text) = parse

\* a block with a "Created by" line, a sub-status and a description of two
\* lines was parsed after one without that line
C21_Witness ==
    /\ p_pc = "returned"
    /\ Len(p_blocks) = 2 /\ Len(p_out.list) = 2
    /\ ~p_blocks[1].created /\ WellFormed(p_blocks[1])
    /\ p_blocks[2].created /\ WellFormed(p_blocks[2])
    /\ p_blocks[2].conts # <<>>
    /\ p_out.list[2].id = 12

-----------------------------------------------------------------------------
(* The number of clean-ups of update_package, checked under Spec *)

\* C23: whatever the three flags are and wherever a step fails, one run of
\* update_package issues at most one rdelete command
C23_AtMostOneRdelete == Cardinality(RdeleteAt) <= 1

-----------------------------------------------------------------------------
(* What a failed run leaves behind remotely, checked under Spec *)

\* the branch command exited with code 0: run() returned its output, so the
\* failure is that of a later step or of reading the output
BranchExitedZero == Failed /\ (exc.kind = "IndexError" \/ exc.id > 1)
\* no rdelete failed: the failure inside the try block is not that of the
\* 'nothing changed' rdelete, and the handler re-raised it
EveryRdeleteSucceeded == FailedStep # "rdelete" /\ u_out = exc

\* C24: with cleanup_on_error, when update_package ends with a failure after
\* its branch command exited with code 0 and no rdelete failed, the branched
\* package was deleted: an rdelete was issued and returned
C24_FailedRunLeavesNoBranch ==
    (/\ u_pc = "done"
     /\ flags.cleanup_on_error
     /\ BranchExitedZero
     /\ EveryRdeleteSucceeded)
    => RdeleteAt # {}

-----------------------------------------------------------------------------
(* Termination of run_cmd, checked under FairRunCmd *)

\* the event loop and the child are scheduled: a step that stays possible is
\* taken
FairRunCmd == SpecRunCmd /\ WF_vars(NextRunCmd)

\* C25: a call of run_cmd without a timeout is eventually over, by a return
\* or by an exception, whatever the child writes before it exits
C25_RunCmdEnds ==
    (r_pc = "spawn" /\ r_args.timeout = NoTimeout) ~> (r_pc \in {"returned", "raised"})

-----------------------------------------------------------------------------
(* The assertion at the end of retry_async_run_cmd, checked under SpecRetry *)

\* the call is over
RetryOver == t_pc \in {"returned", "raised"}
\* line 180 was reached: the AssertionError is not a failure of the
\* coroutine, which raises none here
ReachedAssert == t_out = Raised("AssertionError", NoResult, 0)

-----------------------------------------------------------------------------
(* Outputs without a block and with empty chunks, checked under SpecParse *)

\* C27: an output of zero or more well-formed blocks without the sentinel,
\* with one or more blank lines between two blocks, gives one record for each
\* block and does not fail; in particular the empty output gives the empty
\* list
C27_EmptyChunksAreSkipped ==
    (/\ ParseOver
     /\ \A k \in 1..Len(p_blocks) :
           WellFormed(p_blocks[k]) /\ ~MentionsSentinel(p_blocks[k]))
    => /\ p_pc = "returned"
       /\ Len(p_out.list) = Len(p_blocks)

-----------------------------------------------------------------------------
(* Two calls of update_package at once, checked under SpecTwo *)

\* the other call
Other(k) == CHOOSE j \in Invocations : j # k
\* the call is inside the `async with` block of line 99
InTmp(k) == runs[k].tmp # ""
\* the commands of a call that name a package, and the package each names
NamesPackage(c) == c.verb \in {"co", "rdelete", "service wait"}
PackageIn(c) == IF c.verb = "service wait" THEN Replace(c.arg, SP, "/") ELSE c.arg
\* the branched package a call read from the output of its own branch command
Branched(k) == runs[k].target_pkg
\* each call's scratch directory is its own: the two differ while both
\* exist, and a call runs every command in its directory and checks out into it
OwnScratchDirectory ==
    /\ (InTmp(1) /\ InTmp(2)) => runs[1].tmp # runs[2].tmp
    /\ \A k \in Invocations : \A n \in 1..Len(runs[k].cmds) :
          LET c == runs[k].cmds[n]
          IN  /\ c.cwd \in Dirs
              /\ InTmp(k) => c.cwd = runs[k].tmp
              /\ c.verb = "co" => c.o = c.cwd
              /\ (InTmp(k) /\ InTmp(Other(k))) => c.cwd # runs[Other(k)].tmp
\* the commands of a call, clean-ups aside, are those of the workflow in its
\* order, and what the call gives its caller is a return, the failure of one
\* of its own steps or the failure of its own clean-up
OwnSequence(k) ==
    LET r == runs[k]
        steps == SelectSeq(r.cmds, LAMBDA c : c.verb # "rdelete")
        order == <<"branch", "co">> \o [n \in 1..Len(r.written_files.names) |-> "add"]
                 \o <<"st", "vc", "ci", "service wait", "sr">>
    IN  /\ Len(steps) <= Len(order)
        /\ \A n \in 1..Len(steps) : steps[n].verb = order[n]
        /\ r.cmds # <<>> => r.cmds[1].arg = SourceOf(k)
        /\ r.exc # NoOutcome => r.exc.id <= Len(r.cmds)
        /\ r.pc = "done" =>
              \/ r.out = ReturnsNone /\ r.exc = NoOutcome
              \/ r.out = r.exc /\ r.exc # NoOutcome
              \/ /\ r.out = Raised("CommandError", NoResult, Len(r.cmds))
                 /\ Last(r.cmds).verb = "rdelete"
\* a step of a call that is not over is possible whatever the other call did
CanStep(k) ==
    \/ ENABLED EnterTmpOf(k)
    \/ ENABLED IssueOf(k)
    \/ ENABLED RunReturnsOf(k)
    \/ ENABLED RunRaisesOf(k)
    \/ ENABLED AddFilesOf(k)
    \/ ENABLED ExceptOf(k)
    \/ ENABLED ExitTmpOf(k)

\* C22 as stated: no command of one call names the scratch directory or the
\* branched package of the other
C22_Original ==
    /\ OwnScratchDirectory
    /\ \A k \in Invocations : \A n \in 1..Len(runs[k].cmds) :
          (NamesPackage(runs[k].cmds[n]) /\ Branched(Other(k)).some)
          => PackageIn(runs[k].cmds[n]) # Branched(Other(k)).v

\* C22: each of two calls on different source packages runs every command in
\* its own scratch directory, and every co, rdelete and service wait names
\* the branched package its own branch command printed, so none names that
\* of the other call when the two branch commands printed different names;
\* the commands and the outcome of a call are those of the workflow on its
\* own results, a call that is not over can go on whatever the other did,
\* and a step of one call changes nothing of the other
C22_CallsAreIndependent ==
    /\ [](/\ OwnScratchDirectory
          /\ \A k \in Invocations :
                /\ OwnSequence(k)
                /\ runs[k].pc # "done" => CanStep(k)
                /\ \A n \in 1..Len(runs[k].cmds) :
                      NamesPackage(runs[k].cmds[n]) =>
                         /\ Branched(k) = Some(PackageIn(runs[k].cmds[n]))
                         /\ (Branched(Other(k)).some /\ Branched(Other(k)) # Branched(k))
                            => PackageIn(runs[k].cmds[n]) # Branched(Other(k)).v)
    /\ [][\E k \in Invocations : runs'[Other(k)] = runs[Other(k)]]_vars

\* call 1 failed at ci and its clean-up is running while call 2, which
\* branched to another package, waits for its service wait
C22_Witness ==
    /\ runs[1].pc = "rdelete_error" /\ runs[1].wait
    /\ runs[1].exc.id = 6
    /\ runs[2].pc = "service_wait" /\ runs[2].wait
    /\ Branched(1) = Some(<<"h", "/", "q">>)
    /\ Branched(2) = Some(<<"h", "/", "p">>)
    /\ Last(runs[1].cmds).arg = <<"h", "/", "q">>
    /\ Last(runs[2].cmds).arg = <<"h", SP, "p">>

====
